---------------------------- MODULE Spec2Model ----------------------------
(***************************************************************************)
(* State-machine model of src/src/kwanza_tukule_analysis.py: one           *)
(* KwanzaTukuleAnalysis object, the stage methods called on it directly    *)
(* (as tests/test_kwanza_tukule_analysis.py does) and the __main__ script  *)
(* that constructs the object and calls run_analysis.                      *)
(*                                                                         *)
(* A cell of a table is <<>> when it is missing (NaN / NaT) and <<v>>      *)
(* when it holds v; a DATE cell is <<"str", y, m, d>> while it is still    *)
(* the text "y-m-d" and <<"ts", y, m, d>> once it is a Timestamp.  A row   *)
(* is a function from column names to cells, a DataFrame a record of its   *)
(* column names and its rows in index order.                               *)
(***************************************************************************)
EXTENDS Integers, Sequences, FiniteSets, TLC

VARIABLES source, data, cleaned_data, monthly_data, stats_highlights,
          report, pc, last, ret, raised, logged

vars == <<source, data, cleaned_data, monthly_data, stats_highlights,
          report, pc, last, ret, raised, logged>>

obj == <<data, cleaned_data, monthly_data, stats_highlights>>

----------------------------------------------------------------------------
(* Values *)

None == [kind |-> "None"]

NaN == <<>>

IsNull(c) == c = NaN

DataFrame(columns, rows) ==
    [kind |-> "DataFrame", columns |-> columns, rows |-> rows]

IsFrame(v) == v.kind = "DataFrame"

\* A returned self.<attr>: the caller holds the very object the attribute
\* holds (None when the attribute is None).
Attr(attr, value) == IF value = None THEN None ELSE [kind |-> "self", attr |-> attr]

RawColumns == {"DATE", "ANONYMIZED CATEGORY", "ANONYMIZED BUSINESS",
               "QUANTITY", "UNIT PRICE"}

Row(d, c, b, q, p) ==
    ("DATE" :> d) @@ ("ANONYMIZED CATEGORY" :> c) @@
    ("ANONYMIZED BUSINESS" :> b) @@ ("QUANTITY" :> q) @@ ("UNIT PRICE" :> p)

Text(y, m, d) == <<"str", y, m, d>>

Timestamp(y, m, d) == <<"ts", y, m, d>>

Max(S) == CHOOSE x \in S : \A y \in S : y <= x

\* The subsequence of s at the indices in I, in index order.
Take(s, I) ==
    LET F[i \in 0..Len(s)] ==
            IF i = 0 THEN <<>>
            ELSE IF i \in I THEN Append(F[i - 1], s[i]) ELSE F[i - 1]
    IN  F[Len(s)]

\* The sequence <<Op(1), ..., Op(n)>>.
Build(n, Op(_)) ==
    LET F[i \in 0..n] == IF i = 0 THEN <<>> ELSE Append(F[i - 1], Op(i))
    IN  F[n]

RECURSIVE SumSeq(_)
SumSeq(s) == IF s = <<>> THEN 0 ELSE Head(s) + SumSeq(Tail(s))

----------------------------------------------------------------------------
(* The tables the Excel sheet may hold *)

MaxRows == 3

\* The rows the sheet is made of.  The base date is three calendar months
\* before 2024-05-31 to the day (May has 31 days, February 2024 has 29) and
\* five months before 2024-07-31.
BaseRow == Row(Text(2024, 2, 29), <<"A">>, <<"b1">>, <<1>>, <<1>>)

RowPool ==
    { BaseRow,
      [BaseRow EXCEPT !["DATE"] = Text(2024, 7, 31), !["QUANTITY"] = <<2>>],
      [BaseRow EXCEPT !["DATE"] = Text(2024, 2, 30)],        \* no calendar day
      [BaseRow EXCEPT !["DATE"] = NaN, !["QUANTITY"] = NaN],
      [BaseRow EXCEPT !["ANONYMIZED CATEGORY"] = NaN,
                      !["ANONYMIZED BUSINESS"] = NaN],
      [BaseRow EXCEPT !["ANONYMIZED CATEGORY"] = <<"a">>,
                      !["ANONYMIZED BUSINESS"] = <<"b2">>],
      [BaseRow EXCEPT !["DATE"] = Text(2024, 5, 31),
                      !["ANONYMIZED BUSINESS"] = <<"b3">>, !["UNIT PRICE"] = <<3>>] }

Tables == UNION { [1..n -> RowPool] : n \in 1..MaxRows }

Unreadable == [kind |-> "Unreadable"]

Sources == {Unreadable} \cup { DataFrame(RawColumns, t) : t \in Tables }

----------------------------------------------------------------------------
(* pandas operations used by the stages *)

\* DataFrame.drop_duplicates(): a row is dropped when an earlier row equals
\* it in every column (missing cells compare equal).
drop_duplicates(df) ==
    LET rows == df.rows
        keep == { i \in 1..Len(rows) : \A j \in 1..(i - 1) : rows[j] # rows[i] }
    IN  DataFrame(df.columns, Take(rows, keep))

\* DataFrame.fillna(method='ffill'): a missing cell takes the last valid
\* value above it in its column, and stays missing when there is none.
ffill(df) ==
    LET rows == df.rows
        valid(i, c) == { j \in 1..i : ~IsNull(rows[j][c]) }
        cell(i, c) == IF valid(i, c) = {} THEN NaN ELSE rows[Max(valid(i, c))][c]
        filled(i) == [c \in DOMAIN rows[i] |-> cell(i, c)]
    IN  DataFrame(df.columns, Build(Len(rows), filled))

\* pd.to_datetime(cell, errors='coerce') on one cell: a Timestamp stays, the
\* text "y-m-d" becomes a Timestamp when it names a calendar day, anything
\* else becomes NaT.
IsLeap(y) == (y % 4 = 0 /\ y % 100 # 0) \/ y % 400 = 0

DaysInMonth(y, m) ==
    IF m = 2 THEN (IF IsLeap(y) THEN 29 ELSE 28)
    ELSE IF m \in {4, 6, 9, 11} THEN 30 ELSE 31

\* A parser of texts only: a cell that already holds a Timestamp is coerced
\* to NaT like any other cell that is no date text.
to_datetime_text_only(cell) ==
    IF IsNull(cell) \/ cell[1] = "ts" THEN NaN
    ELSE IF /\ cell[3] \in 1..12
            /\ cell[4] \in 1..DaysInMonth(cell[2], cell[3])
         THEN Timestamp(cell[2], cell[3], cell[4])
         ELSE NaN

to_datetime(cell) ==
    IF IsNull(cell) THEN NaN
    ELSE IF cell[1] = "ts" THEN cell
    ELSE IF /\ cell[3] \in 1..12
            /\ cell[4] \in 1..DaysInMonth(cell[2], cell[3])
         THEN Timestamp(cell[2], cell[3], cell[4])
         ELSE NaN

MonthNames ==
    <<"January", "February", "March", "April", "May", "June", "July",
      "August", "September", "October", "November", "December">>

\* dt.strftime('%m %Y'): the period with the number of its month.
strftime_numeric(ts) == ToString(ts[3]) \o " " \o ToString(ts[2])

\* Timestamp.strftime('%B %Y')
strftime(ts) == MonthNames[ts[3]] \o " " \o ToString(ts[2])

\* Timestamps compare by calendar order.
Ordinal(ts) == ts[2] * 10000 + ts[3] * 100 + ts[4]

\* ts - pd.DateOffset(months=n): n calendar months back, the day clamped to
\* the length of the month reached.
MinusMonths(ts, n) ==
    LET k == ts[2] * 12 + (ts[3] - 1) - n
        y == k \div 12
        m == (k % 12) + 1
        d == IF ts[4] > DaysInMonth(y, m) THEN DaysInMonth(y, m) ELSE ts[4]
    IN  Timestamp(y, m, d)

\* Python's order on the strings that occur as grouping keys: the category
\* and business labels in code-point order, then the period labels, which
\* compare by month name and then by year.
Labels == <<"A", "B", "a", "b1", "b2", "b3">>

MonthsAlphabetical ==
    <<"April", "August", "December", "February", "January", "July", "June",
      "March", "May", "November", "October", "September">>

Years == 2023..2025

Index(seq, x) == CHOOSE i \in 1..Len(seq) : seq[i] = x

PeriodRank ==
    [k \in { strftime(Timestamp(y, m, 1)) : y \in Years, m \in 1..12 } |->
        LET p == CHOOSE q \in (1..12) \X Years : strftime(Timestamp(q[2], q[1], 1)) = k
        IN  10000 * Index(MonthsAlphabetical, MonthNames[p[1]]) + p[2]]

LabelRank == [k \in { Labels[i] : i \in 1..Len(Labels) } |-> Index(Labels, k)]

Rank(k) == IF k \in DOMAIN LabelRank THEN LabelRank[k] ELSE PeriodRank[k]

RECURSIVE SortedKeys(_)
SortedKeys(S) ==
    IF S = {} THEN <<>>
    ELSE LET m == CHOOSE x \in S : \A y \in S : Rank(x) <= Rank(y)
         IN  <<m>> \o SortedKeys(S \ {m})

\* Series.sum(): missing cells are skipped.
\* The 'count' aggregation: the number of cells of the column that hold a value.
ColumnCount(rows, col) ==
    Cardinality({ i \in 1..Len(rows) : ~IsNull(rows[i][col]) })

ColumnSum(rows, col) ==
    LET value(i) == IF IsNull(rows[i][col]) THEN 0 ELSE rows[i][col][1]
    IN  SumSeq(Build(Len(rows), value))

\* df.groupby(key).agg({'QUANTITY': 'sum', 'UNIT PRICE': 'sum'}).reset_index():
\* one row per key value that occurs, in sorted key order; rows whose key is
\* missing belong to no group.
GroupRows(rows, key, k) == Take(rows, { i \in 1..Len(rows) : rows[i][key] = <<k>> })

KeysOf(rows, key) ==
    { rows[i][key][1] : i \in { j \in 1..Len(rows) : ~IsNull(rows[j][key]) } }

groupby_sum(df, key) ==
    LET keys == SortedKeys(KeysOf(df.rows, key))
        sums(i) ==
            LET group == GroupRows(df.rows, key, keys[i])
            IN  (key :> <<keys[i]>>) @@
                ("QUANTITY" :> <<ColumnSum(group, "QUANTITY")>>) @@
                ("UNIT PRICE" :> <<ColumnSum(group, "UNIT PRICE")>>)
    IN  DataFrame({key, "QUANTITY", "UNIT PRICE"}, Build(Len(keys), sums))

\* df.nlargest(n, col): the n rows with the largest values, largest first,
\* equal values in their order in df (keep='first').
nlargest(df, n, col) ==
    LET rows == df.rows
        before(i) == { j \in 1..Len(rows) :
                         \/ rows[j][col][1] > rows[i][col][1]
                         \/ rows[j][col][1] = rows[i][col][1] /\ j < i }
        m == IF Len(rows) < n THEN Len(rows) ELSE n
        pick(r) == rows[CHOOSE i \in 1..Len(rows) : Cardinality(before(i)) = r - 1]
    IN  Build(m, pick)

\* Series.mean() of a non-empty column, as the fraction <<sum, count>>.
mean(rows, col) == <<ColumnSum(rows, col), Len(rows)>>

\* The i-th smallest of the values of a sequence of numbers.
Kth(vals, i) ==
    CHOOSE v \in { vals[j] : j \in 1..Len(vals) } :
        /\ Cardinality({ j \in 1..Len(vals) : vals[j] < v }) < i
        /\ i <= Cardinality({ j \in 1..Len(vals) : vals[j] <= v })

\* pd.qcut(x, q): the bin edges are the quantiles k/q of x, k = 0..q, by
\* linear interpolation between the order statistics around position
\* (n-1)*k/q; edge k is element k+1 of the sequence, and every edge is
\* multiplied by q so that it stays a whole number.
QcutQ == 3

QcutLabels == <<"Low Value", "Medium Value", "High Value">>

BinEdges(vals, q) ==
    LET edge(i) ==
            LET pos == (Len(vals) - 1) * (i - 1)
                lo  == (pos \div q) + 1
                hi  == IF lo < Len(vals) THEN lo + 1 ELSE lo
            IN  q * Kth(vals, lo) + (pos % q) * (Kth(vals, hi) - Kth(vals, lo))
    IN  Build(q + 1, edge)

\* qcut raises ValueError("Bin edges must be unique") when two edges are
\* equal, and on an empty column, whose quantiles are all NaN.
QcutRaises(vals, q) ==
    \/ Len(vals) = 0
    \/ LET edges == BinEdges(vals, q)
       IN  \E j, k \in 1..(q + 1) : j # k /\ edges[j] = edges[k]

\* The bin of x: (edge[i-1], edge[i]], the lowest edge included in bin 1.
QcutBin(edges, q, x) ==
    IF q * x = edges[1] THEN 1
    ELSE Cardinality({ k \in 1..(q + 1) : edges[k] < q * x })

----------------------------------------------------------------------------
(* The object and its stages *)

Init ==
    /\ source \in Sources
    /\ data = None
    /\ cleaned_data = None
    /\ monthly_data = None
    /\ stats_highlights = <<>>
    /\ report = <<>>
    /\ pc = "idle"
    /\ last = "init"
    /\ ret = None
    /\ raised = "none"
    /\ logged = "none"

\* What a call leaves behind for its caller: the stage, its return value,
\* the exception that left it (or "none") and the red diagnostic it printed.
Returns(stage, value, diag) ==
    /\ last' = stage
    /\ ret' = value
    /\ raised' = "none"
    /\ logged' = diag

Raises(stage, exc) ==
    /\ last' = stage
    /\ ret' = None
    /\ raised' = exc
    /\ logged' = "none"

\* A guard without its return: the body goes on and reads the absent table.
Unguarded(stage, diag) == Raises(stage, "AttributeError")

\* A guard's branch: the diagnostic is printed and the method returns None.
Guarded(stage, diag) == Returns(stage, None, diag)

NoData == "Error: No data loaded. Please load the dataset first."

NoCleanedData == "Error: No cleaned data available. Please clean the data first."

load_data ==
    /\ IF IsFrame(source)
         THEN /\ data' = source
              /\ Returns("load_data", Attr("data", data'), "none")
         ELSE /\ data' = data
              /\ Returns("load_data", Attr("data", data'), "Error loading dataset")
    /\ report' = <<>>
    /\ UNCHANGED <<source, cleaned_data, monthly_data, stats_highlights>>

data_quality_assessment ==
    /\ IF data = None
         THEN Guarded("data_quality_assessment", NoData)
         ELSE Returns("data_quality_assessment", None, "none")
    /\ report' = <<>>
    /\ UNCHANGED <<source, data, cleaned_data, monthly_data, stats_highlights>>

Cleaned(df) == ffill(drop_duplicates(df))

clean_data ==
    /\ IF data = None
         THEN /\ cleaned_data' = cleaned_data
              /\ Guarded("clean_data", NoData)
         ELSE /\ cleaned_data' = Cleaned(data)
              /\ Returns("clean_data", Attr("cleaned_data", cleaned_data'), "none")
    /\ report' = <<>>
    /\ UNCHANGED <<source, data, monthly_data, stats_highlights>>

\* Lines 108-110: parse DATE, drop the rows left without a date, label the
\* rest with the month and year of their date.
Parsed(rows) ==
    { i \in 1..Len(rows) : ~IsNull(to_datetime(rows[i]["DATE"])) }

Labelled(row) ==
    ("Month-Year" :> <<strftime(to_datetime(row["DATE"]))>>) @@
    [row EXCEPT !["DATE"] = to_datetime(row["DATE"])]

Featured(df) ==
    LET kept == Take(df.rows, Parsed(df.rows))
        labelled(i) == Labelled(kept[i])
    IN  DataFrame(df.columns \cup {"Month-Year"}, Build(Len(kept), labelled))

feature_engineering ==
    /\ IF cleaned_data = None
         THEN /\ cleaned_data' = cleaned_data
              /\ Guarded("feature_engineering", NoCleanedData)
         ELSE /\ cleaned_data' = Featured(cleaned_data)
              /\ Returns("feature_engineering", Attr("cleaned_data", cleaned_data'), "none")
    /\ report' = <<>>
    /\ UNCHANGED <<source, data, monthly_data, stats_highlights>>

\* Lines 147-150; .iloc[0] of an empty selection raises IndexError.
SalesHighlights(category_sales) ==
    ("top_category" :>
        nlargest(category_sales, 1, "UNIT PRICE")[1]["ANONYMIZED CATEGORY"][1]) @@
    ("top_category_value" :>
        nlargest(category_sales, 1, "UNIT PRICE")[1]["UNIT PRICE"][1]) @@
    ("total_sales_value" :> ColumnSum(category_sales.rows, "UNIT PRICE"))

sales_overview ==
    /\ IF cleaned_data = None
         THEN /\ stats_highlights' = stats_highlights
              /\ Guarded("sales_overview", NoCleanedData)
         ELSE LET category_sales == groupby_sum(cleaned_data, "ANONYMIZED CATEGORY")
                  business_sales == groupby_sum(cleaned_data, "ANONYMIZED BUSINESS")
              IN  IF category_sales.rows = <<>>
                    THEN /\ stats_highlights' = stats_highlights
                         /\ Raises("sales_overview", "IndexError")
                    ELSE /\ stats_highlights' =
                                SalesHighlights(category_sales) @@ stats_highlights
                         /\ Returns("sales_overview",
                                    [kind |-> "tuple", category_sales |-> category_sales,
                                     business_sales |-> business_sales], "none")
    /\ report' = <<>>
    /\ UNCHANGED <<source, data, cleaned_data, monthly_data>>

\* Lines 182-184
TrendHighlights(monthly) ==
    ("peak_month" :> nlargest(monthly, 1, "UNIT PRICE")[1]["Month-Year"][1]) @@
    ("peak_month_value" :> nlargest(monthly, 1, "UNIT PRICE")[1]["UNIT PRICE"][1]) @@
    ("avg_monthly_value" :> mean(monthly.rows, "UNIT PRICE"))

\* A trend analysis that stores an empty aggregate for whatever cleaned
\* table it finds, labelled or not.
trends_over_time_unlabelled ==
    /\ monthly_data' =
          (IF cleaned_data = None THEN monthly_data
           ELSE DataFrame({"Month-Year", "QUANTITY", "UNIT PRICE"}, <<>>))
    /\ Returns("trends_over_time", None, "none")
    /\ report' = <<>>
    /\ UNCHANGED <<source, data, cleaned_data, stats_highlights>>

trends_over_time ==
    /\ IF cleaned_data = None
         THEN /\ UNCHANGED <<monthly_data, stats_highlights>>
              /\ Guarded("trends_over_time", NoCleanedData)
         ELSE IF "Month-Year" \notin cleaned_data.columns
         THEN /\ UNCHANGED <<monthly_data, stats_highlights>>
              /\ Raises("trends_over_time", "KeyError")
         ELSE /\ monthly_data' = groupby_sum(cleaned_data, "Month-Year")
              /\ IF monthly_data'.rows = <<>>
                   THEN /\ stats_highlights' = stats_highlights
                        /\ Raises("trends_over_time", "IndexError")
                   ELSE /\ stats_highlights' =
                                TrendHighlights(monthly_data') @@ stats_highlights
                        /\ Returns("trends_over_time", Attr("monthly_data", monthly_data'), "none")
    /\ report' = <<>>
    /\ UNCHANGED <<source, data, cleaned_data>>

\* Series.nunique(): the number of distinct values, missing cells apart.
nunique(rows, col) ==
    Cardinality({ rows[i][col] : i \in { j \in 1..Len(rows) : ~IsNull(rows[j][col]) } })

\* Series.unique(): the distinct cells of a column, a missing cell included.
unique(rows, col) == { rows[i][col] : i \in 1..Len(rows) }

\* Lines 201-205: one row per business, in sorted order of the business.
Segmentation(df) ==
    LET keys == SortedKeys(KeysOf(df.rows, "ANONYMIZED BUSINESS"))
        agg(i) ==
            LET group == GroupRows(df.rows, "ANONYMIZED BUSINESS", keys[i])
            IN  ("ANONYMIZED BUSINESS" :> <<keys[i]>>) @@
                ("Total_Quantity" :> <<ColumnSum(group, "QUANTITY")>>) @@
                ("Total_Value" :> <<ColumnSum(group, "UNIT PRICE")>>) @@
                ("Frequency" :> <<nunique(group, "DATE")>>)
    IN  Build(Len(keys), agg)

TotalValues(seg) ==
    LET value(i) == seg[i]["Total_Value"][1]
    IN  Build(Len(seg), value)

\* Line 207
Segmented(seg) ==
    LET edges == BinEdges(TotalValues(seg), QcutQ)
        binned(i) ==
            ("Segment" :> <<QcutLabels[QcutBin(edges, QcutQ, seg[i]["Total_Value"][1])]>>)
            @@ seg[i]
    IN  Build(Len(seg), binned)

SegmentColumns ==
    {"ANONYMIZED BUSINESS", "Total_Quantity", "Total_Value", "Frequency", "Segment"}

\* Lines 212-215
SegmentHighlights(segmentation) ==
    ("high_value_customers" :>
        Cardinality({ i \in 1..Len(segmentation.rows) :
                        segmentation.rows[i]["Segment"] = <<"High Value">> })) @@
    ("avg_customer_value" :> mean(segmentation.rows, "Total_Value")) @@
    ("top_customer" :>
        nlargest(segmentation, 1, "Total_Value")[1]["ANONYMIZED BUSINESS"][1]) @@
    ("top_customer_value" :>
        nlargest(segmentation, 1, "Total_Value")[1]["Total_Value"][1])

customer_segmentation ==
    /\ IF cleaned_data = None
         THEN /\ stats_highlights' = stats_highlights
              /\ Guarded("customer_segmentation", NoCleanedData)
         ELSE LET seg == Segmentation(cleaned_data)
              IN  IF QcutRaises(TotalValues(seg), QcutQ)
                    THEN /\ stats_highlights' = stats_highlights
                         /\ Raises("customer_segmentation", "ValueError")
                    ELSE LET segmentation == DataFrame(SegmentColumns, Segmented(seg))
                         IN  /\ stats_highlights' =
                                    SegmentHighlights(segmentation) @@ stats_highlights
                             /\ Returns("customer_segmentation", segmentation, "none")
    /\ report' = <<>>
    /\ UNCHANGED <<source, data, cleaned_data, monthly_data>>

\* Lines 255-258: the category whose summed UNIT PRICE is largest.  The sort
\* is sort_values' default (quicksort), which is not stable: among
\* categories with equal sums any one may come first.
TopCategories(df) ==
    LET cats == groupby_sum(df, "ANONYMIZED CATEGORY").rows
    IN  { cats[i]["ANONYMIZED CATEGORY"][1] : i \in
            { j \in 1..Len(cats) :
                \A k \in 1..Len(cats) : cats[k]["UNIT PRICE"][1] <= cats[j]["UNIT PRICE"][1] } }

\* Lines 278-281.  The comparison needs every DATE to be a Timestamp.
DatesAreTimestamps(rows) ==
    \A i \in 1..Len(rows) : ~IsNull(rows[i]["DATE"]) /\ rows[i]["DATE"][1] = "ts"

RetentionMonths == 3

MaxDate(rows) ==
    CHOOSE d \in { rows[i]["DATE"] : i \in 1..Len(rows) } :
        \A i \in 1..Len(rows) : Ordinal(rows[i]["DATE"]) <= Ordinal(d)

IsRecent(rows, i) ==
    Ordinal(rows[i]["DATE"]) >= Ordinal(MinusMonths(MaxDate(rows), RetentionMonths))

recent_customers(rows) ==
    unique(Take(rows, { i \in 1..Len(rows) : IsRecent(rows, i) }), "ANONYMIZED BUSINESS")

inactive_customers(rows) ==
    unique(rows, "ANONYMIZED BUSINESS") \ recent_customers(rows)

\* Line 297
PeakCount == 3

\* nlargest(3, 'UNIT PRICE'): the periods of the highest total value.
peak_months_by_value(monthly) ==
    LET top == nlargest(monthly, PeakCount, "UNIT PRICE")
        label(i) == top[i]["Month-Year"][1]
    IN  Build(Len(top), label)

peak_months(monthly) ==
    LET top == nlargest(monthly, PeakCount, "QUANTITY")
        label(i) == top[i]["Month-Year"][1]
    IN  Build(Len(top), label)

\* A generator that stores the category it recomputed in stats_highlights.
generate_recommendations_storing ==
    /\ stats_highlights' = ("top_category" :> "N/A") @@ stats_highlights
    /\ report' = ("insights_overview" :> <<stats_highlights>>)
    /\ Returns("generate_recommendations", None, "none")
    /\ UNCHANGED <<source, data, cleaned_data, monthly_data>>

\* The report sections a call emits to the output sink (the files of
\* strategic_insights_recommendations/).  Sections are written in the order
\* of the code, so a call that raises has emitted the sections before the
\* raise.
generate_recommendations ==
    LET overview == ("insights_overview" :> <<stats_highlights>>)
        product(top) ==
            ("insights_overview" :> <<stats_highlights, top>>) @@
            ("product_strategy" :> top)
        retention(top) ==
            ("customer_retention" :> Cardinality(inactive_customers(cleaned_data.rows)))
            @@ product(top)
        efficiency(top) ==
            ("operational_efficiency" :> peak_months(monthly_data)) @@
            ("completion_status" :> TRUE) @@ retention(top)
    IN
    /\ IF cleaned_data = None
         THEN /\ report' = overview
              /\ Raises("generate_recommendations", "AttributeError")
         ELSE IF TopCategories(cleaned_data) = {}
         THEN /\ report' = overview
              /\ Raises("generate_recommendations", "IndexError")
         ELSE \E top \in TopCategories(cleaned_data) :
                IF ~DatesAreTimestamps(cleaned_data.rows)
                  THEN /\ report' = product(top)
                       /\ Raises("generate_recommendations", "TypeError")
                  ELSE IF monthly_data = None
                  THEN /\ report' = retention(top)
                       /\ Raises("generate_recommendations", "AttributeError")
                  ELSE /\ report' = efficiency(top)
                       /\ Returns("generate_recommendations", None, "none")
    /\ UNCHANGED <<source, data, cleaned_data, monthly_data, stats_highlights>>

\* Lines 330-349: px.line raises ValueError when it is given column names
\* and no data frame.
create_dashboard ==
    /\ IF cleaned_data = None
         THEN Guarded("create_dashboard", NoCleanedData)
         ELSE IF monthly_data = None
         THEN Raises("create_dashboard", "ValueError")
         ELSE Returns("create_dashboard", None, "none")
    /\ report' = <<>>
    /\ UNCHANGED <<source, data, cleaned_data, monthly_data, stats_highlights>>

\* Line 362 reads the global BASE_PATH, which line 468 binds only when the
\* module runs as a script.
handle_bonus_questions ==
    /\ IF pc = "idle"
         THEN Raises("handle_bonus_questions", "NameError")
         ELSE Returns("handle_bonus_questions", None, "none")
    /\ report' = <<>>
    /\ UNCHANGED <<source, data, cleaned_data, monthly_data, stats_highlights>>

----------------------------------------------------------------------------
(* Callers *)

\* A stage method called on the object by a caller that imported the module.
Call(stage) == pc = "idle" /\ stage /\ UNCHANGED pc

\* Lines 467-471: the script constructs the object and calls run_analysis.
Main ==
    /\ pc = "idle"
    /\ last = "init"
    /\ pc' = "load_data"
    /\ UNCHANGED <<source, data, cleaned_data, monthly_data, stats_highlights,
                   report, last, ret, raised, logged>>

\* One line of run_analysis (456-465): the stage is called, and an exception
\* that leaves it leaves run_analysis and the script too.
Step(name, stage, next) ==
    /\ pc = name
    /\ stage
    /\ pc' = IF raised' = "none" THEN next ELSE "crashed"

run_analysis ==
    \/ Step("load_data", load_data, "data_quality_assessment")
    \/ Step("data_quality_assessment", data_quality_assessment, "clean_data")
    \/ Step("clean_data", clean_data, "feature_engineering")
    \/ Step("feature_engineering", feature_engineering, "sales_overview")
    \/ Step("sales_overview", sales_overview, "trends_over_time")
    \/ Step("trends_over_time", trends_over_time, "customer_segmentation")
    \/ Step("customer_segmentation", customer_segmentation, "generate_recommendations")
    \/ Step("generate_recommendations", generate_recommendations, "create_dashboard")
    \/ Step("create_dashboard", create_dashboard, "handle_bonus_questions")
    \/ Step("handle_bonus_questions", handle_bonus_questions, "done")

Next ==
    \/ Call(load_data)
    \/ Call(data_quality_assessment)
    \/ Call(clean_data)
    \/ Call(feature_engineering)
    \/ Call(sales_overview)
    \/ Call(trends_over_time)
    \/ Call(customer_segmentation)
    \/ Call(generate_recommendations)
    \/ Call(create_dashboard)
    \/ Call(handle_bonus_questions)
    \/ Main
    \/ run_analysis

Spec == Init /\ [][Next]_vars

----------------------------------------------------------------------------
(* Vocabulary of the properties *)

Rows(df) == 1..Len(df.rows)

\* The sum of a column over the rows at the indices in I, a missing cell
\* counting for nothing.
RECURSIVE Total(_, _, _)
Total(rows, I, col) ==
    IF I = {} THEN 0
    ELSE LET i == CHOOSE j \in I : TRUE
         IN  (IF rows[i][col] = <<>> THEN 0 ELSE rows[i][col][1])
             + Total(rows, I \ {i}, col)

\* The values that occur in a column (a missing cell is no value).
Occurring(df, col) == { df.rows[i][col][1] : i \in { j \in Rows(df) : df.rows[j][col] # <<>> } }

Businesses(df) == Occurring(df, "ANONYMIZED BUSINESS")

HasRun(stage) == last = stage

----------------------------------------------------------------------------
(* C1 *)

NoDuplicateRows(df) ==
    \A i, j \in Rows(df) : i # j => df.rows[i] # df.rows[j]

\* A missing cell has only missing cells above it in its column.
OnlyLeadingNulls(df) ==
    \A i \in Rows(df) : \A c \in df.columns :
        df.rows[i][c] = <<>> => \A j \in 1..i : df.rows[j][c] = <<>>

\* C1: the table clean_data produces from a loaded table has no two equal
\* rows, and a missing cell only where every cell above it in its column is
\* missing too.
C1_CleanedIsDuplicateFree ==
    (HasRun("clean_data") /\ data # None) =>
        NoDuplicateRows(cleaned_data) /\ OnlyLeadingNulls(cleaned_data)

----------------------------------------------------------------------------
(* C2 *)

\* C2: when load_data has reported failure and left data absent, no stage
\* that run_analysis calls afterwards raises: the driver is never left by an
\* exception and goes on up to handle_bonus_questions.
C2_RunSurvivesFailedLoad == (source = Unreadable) => pc # "crashed"

----------------------------------------------------------------------------
(* C3, C4 *)

Tiers == {"Low Value", "Medium Value", "High Value"}

TierOf(seg, b) ==
    { seg.rows[i]["Segment"][1] : i \in { j \in Rows(seg) : seg.rows[j]["ANONYMIZED BUSINESS"] = <<b>> } }

TierSize(seg, t) == Cardinality({ i \in Rows(seg) : seg.rows[i]["Segment"] = <<t>> })

\* Every business of df is in exactly one row of seg, with one of the three
\* tiers, and three times the size of a tier is within 3 of the number of
\* businesses.
IsThreeWaySplit(seg, df) ==
    /\ \A b \in Businesses(df) :
          /\ Cardinality({ i \in Rows(seg) : seg.rows[i]["ANONYMIZED BUSINESS"] = <<b>> }) = 1
          /\ TierOf(seg, b) \subseteq Tiers
    /\ Len(seg.rows) = Cardinality(Businesses(df))
    /\ \A t \in Tiers :
          /\ 3 * TierSize(seg, t) - Len(seg.rows) <= 3
          /\ Len(seg.rows) - 3 * TierSize(seg, t) <= 3
          /\ TierSize(seg, t) >= 1

\* C3: run on a cleaned table with at least 3 businesses, customer_segmentation
\* returns a segmentation that gives every business exactly one tier, with
\* tier sizes within 1 of a third of the businesses and all three tiers used.
C3_SegmentationIsThreeWaySplit ==
    (/\ HasRun("customer_segmentation")
     /\ cleaned_data # None
     /\ Cardinality(Businesses(cleaned_data)) >= 3)
    => /\ raised = "none"
       /\ IsFrame(ret)
       /\ IsThreeWaySplit(ret, cleaned_data)

\* C4: run on a cleaned table with fewer than 3 businesses,
\* customer_segmentation prints a diagnostic, returns None and does not raise.
C4_TooFewBusinessesIsReported ==
    (/\ HasRun("customer_segmentation")
     /\ cleaned_data # None
     /\ Cardinality(Businesses(cleaned_data)) < 3)
    => /\ raised = "none"
       /\ ret = None
       /\ logged # "none"

----------------------------------------------------------------------------
(* C5 *)

IsEmptyFeatureTable(df) ==
    df # None /\ "Month-Year" \in df.columns /\ df.rows = <<>>

DownstreamStages ==
    {"sales_overview", "trends_over_time", "customer_segmentation",
     "generate_recommendations"}

\* C5: when no row has a parseable date, feature_engineering leaves an empty
\* table without raising, and no downstream stage run on the empty table raises.
C5_EmptyTableIsHandled ==
    IsEmptyFeatureTable(cleaned_data) =>
        /\ HasRun("feature_engineering") => raised = "none"
        /\ last \in DownstreamStages => raised = "none"

----------------------------------------------------------------------------
(* C6 *)

\* C6: the quantities of sales_overview's category aggregate and of its
\* business aggregate both add up to the total quantity of the table.
C6_QuantityIsConserved ==
    (HasRun("sales_overview") /\ ret.kind = "tuple") =>
        LET category_total ==
                Total(ret.category_sales.rows, Rows(ret.category_sales), "QUANTITY")
            business_total ==
                Total(ret.business_sales.rows, Rows(ret.business_sales), "QUANTITY")
        IN  /\ category_total = business_total
            /\ category_total = Total(cleaned_data.rows, Rows(cleaned_data), "QUANTITY")

----------------------------------------------------------------------------
(* C7 *)

\* agg has exactly one entry for every value that occurs in column key of df
\* and no other entry, and the entry of a value holds the sums of QUANTITY
\* and of UNIT PRICE over exactly the rows of df whose key is that value.
IsAggregateOf(agg, df, key) ==
    /\ \A k \in Occurring(df, key) :
          Cardinality({ i \in Rows(agg) : agg.rows[i][key] = <<k>> }) = 1
    /\ \A i \in Rows(agg) :
          /\ agg.rows[i][key] # <<>>
          /\ agg.rows[i][key][1] \in Occurring(df, key)
          /\ LET group == { j \in Rows(df) : df.rows[j][key] = agg.rows[i][key] }
             IN  /\ agg.rows[i]["QUANTITY"] = <<Total(df.rows, group, "QUANTITY")>>
                 /\ agg.rows[i]["UNIT PRICE"] = <<Total(df.rows, group, "UNIT PRICE")>>

\* C7: the category and business aggregates that sales_overview returns and
\* the period aggregate that trends_over_time stores are aggregates of the
\* table: one entry per key that occurs, none for any other key, each entry
\* the sums over the rows with exactly that key.
C7_AggregatesSumTheirGroups ==
    /\ (HasRun("sales_overview") /\ ret.kind = "tuple") =>
          /\ IsAggregateOf(ret.category_sales, cleaned_data, "ANONYMIZED CATEGORY")
          /\ IsAggregateOf(ret.business_sales, cleaned_data, "ANONYMIZED BUSINESS")
    /\ (HasRun("trends_over_time") /\ ret.kind = "self") =>
          IsAggregateOf(monthly_data, cleaned_data, "Month-Year")

\* sales_overview has returned aggregates of a three-row table with two
\* categories, one of whose entries sums the quantities of two rows.
C7_Witness ==
    /\ HasRun("sales_overview")
    /\ ret.kind = "tuple"
    /\ Len(ret.category_sales.rows) = 2
    /\ Len(cleaned_data.rows) = 3
    /\ \E i \in Rows(ret.category_sales) : ret.category_sales.rows[i]["QUANTITY"] = <<3>>

----------------------------------------------------------------------------
(* C8 *)

GuardedByData == {"data_quality_assessment", "clean_data"}

GuardedByCleanedData ==
    {"feature_engineering", "sales_overview", "trends_over_time",
     "customer_segmentation", "create_dashboard"}

\* The step is a call of a guarded stage whose input is absent.
GuardFails ==
    \/ last' \in GuardedByData /\ data = None
    \/ last' \in GuardedByCleanedData /\ cleaned_data = None

\* C8: a guarded stage called while its input is absent prints a diagnostic,
\* returns None, does not raise, and leaves data, cleaned_data, monthly_data
\* and stats_highlights as they were.
C8_AbsentInputIsReported ==
    [][ GuardFails =>
          /\ logged' = (IF last' \in GuardedByData THEN NoData ELSE NoCleanedData)
          /\ ret' = None
          /\ raised' = "none"
          /\ UNCHANGED obj ]_vars

\* customer_segmentation has hit its guard on an object whose data is loaded.
C8_Witness ==
    /\ HasRun("customer_segmentation")
    /\ data # None
    /\ cleaned_data = None
    /\ logged = NoCleanedData

----------------------------------------------------------------------------
(* C9 *)

MonthLength(y, m) ==
    <<31, IF (y % 4 = 0 /\ y % 100 # 0) \/ y % 400 = 0 THEN 29 ELSE 28,
      31, 30, 31, 30, 31, 31, 30, 31, 30, 31>>[m]

\* The cell holds a date: a Timestamp, or a text that names a calendar day.
HoldsDate(cell) ==
    /\ cell # <<>>
    /\ \/ cell[1] = "ts"
       \/ cell[3] \in 1..12 /\ cell[4] \in 1..MonthLength(cell[2], cell[3])

MonthName(m) ==
    <<"January", "February", "March", "April", "May", "June", "July",
      "August", "September", "October", "November", "December">>[m]

\* new is old without the rows that hold no date, in the same order, every
\* row with its date as a Timestamp and with the label "<Month> <Year>" of
\* that date, and otherwise as it was.
IsFeatureTableOf(new, old) ==
    LET dated == { i \in Rows(old) : HoldsDate(old.rows[i]["DATE"]) }
        nth(n) == CHOOSE i \in dated : Cardinality({ j \in dated : j < i }) = n - 1
    IN  /\ Len(new.rows) = Cardinality(dated)
        /\ \A n \in Rows(new) :
              LET was == old.rows[nth(n)]
                  is  == new.rows[n]
              IN  /\ is["DATE"] = <<"ts", was["DATE"][2], was["DATE"][3], was["DATE"][4]>>
                  /\ is["Month-Year"] =
                        <<MonthName(is["DATE"][3]) \o " " \o ToString(is["DATE"][2])>>
                  /\ \A c \in RawColumns \ {"DATE"} : is[c] = was[c]

\* C9: feature_engineering turns the cleaned table into its feature table.
C9_FeatureTableKeepsDatedRows ==
    [][ (last' = "feature_engineering" /\ cleaned_data # None)
        => IsFeatureTableOf(cleaned_data', cleaned_data) ]_vars

\* feature_engineering has dropped a row and kept two, of different periods.
C9_Witness ==
    /\ HasRun("feature_engineering")
    /\ cleaned_data # None
    /\ Len(cleaned_data.rows) = 2
    /\ Len(Cleaned(data).rows) = 3
    /\ cleaned_data.rows[1]["Month-Year"] # cleaned_data.rows[2]["Month-Year"]

----------------------------------------------------------------------------
(* C10 *)

\* The businesses of df with no row dated in the closed interval from three
\* calendar months before the latest date of df to that date.
InactiveBusinesses(df) ==
    LET latest == Max({ Ordinal(df.rows[i]["DATE"]) : i \in Rows(df) })
        from   == Ordinal(MinusMonths(MaxDate(df.rows), 3))
    IN  { b \in Businesses(df) :
            ~\E i \in Rows(df) :
                /\ df.rows[i]["ANONYMIZED BUSINESS"] = <<b>>
                /\ from <= Ordinal(df.rows[i]["DATE"])
                /\ Ordinal(df.rows[i]["DATE"]) <= latest }

\* C10: the number of inactive businesses that generate_recommendations
\* reports is the number of businesses of the table with no row dated within
\* the three months up to the latest date.
C10_InactiveAreBusinessesOutsideWindow ==
    (HasRun("generate_recommendations") /\ "customer_retention" \in DOMAIN report) =>
        report["customer_retention"] = Cardinality(InactiveBusinesses(cleaned_data))

----------------------------------------------------------------------------
(* Sheets with one row per period *)

MaxPeriods == 4

MaxQuantity == 2

\* The row of month m of 2024 with quantity q.  Odd months are sold to b1 at
\* unit price 1, even months to b3 at unit price 3.
PeriodRow(m, q) ==
    Row(Text(2024, m, 15), <<"A">>, <<IF m % 2 = 1 THEN "b1" ELSE "b3">>,
        <<q>>, <<IF m % 2 = 1 THEN 1 ELSE 3>>)

\* The sheet with a row of quantity qty[m] for every month m with qty[m] > 0,
\* in calendar order.
PeriodTable(qty) ==
    LET row(m) == PeriodRow(m, qty[m])
    IN  Take(Build(MaxPeriods, row), { m \in 1..MaxPeriods : qty[m] > 0 })

PeriodSources ==
    { DataFrame(RawColumns, PeriodTable(qty)) :
        qty \in { f \in [1..MaxPeriods -> 0..MaxQuantity] : \E m \in 1..MaxPeriods : f[m] > 0 } }

InitPeriods ==
    /\ source \in PeriodSources
    /\ data = None
    /\ cleaned_data = None
    /\ monthly_data = None
    /\ stats_highlights = <<>>
    /\ report = <<>>
    /\ pc = "idle"
    /\ last = "init"
    /\ ret = None
    /\ raised = "none"
    /\ logged = "none"

SpecPeriods == InitPeriods /\ [][Next]_vars

----------------------------------------------------------------------------
(* C11 *)

\* The row of the aggregate agg that holds period label.
PeriodIndex(agg, label) == CHOOSE i \in Rows(agg) : agg.rows[i]["Month-Year"] = <<label>>

\* Row i of agg comes before row j in descending order of quantity, equal
\* quantities in the order of agg.
QuantityBefore(agg, i, j) ==
    \/ agg.rows[i]["QUANTITY"][1] > agg.rows[j]["QUANTITY"][1]
    \/ agg.rows[i]["QUANTITY"][1] = agg.rows[j]["QUANTITY"][1] /\ i < j

\* list names min(3, number of periods) different periods of agg, each of
\* them before every period that follows it in list and before every period
\* that list leaves out.
IsTopThreeByQuantity(list, agg) ==
    LET n     == Len(agg.rows)
        at(k) == PeriodIndex(agg, list[k])
        named == { at(k) : k \in 1..Len(list) }
    IN  /\ Len(list) = (IF n < 3 THEN n ELSE 3)
        /\ \A k \in 1..Len(list) : \E i \in Rows(agg) : agg.rows[i]["Month-Year"] = <<list[k]>>
        /\ \A k, l \in 1..Len(list) : k < l => QuantityBefore(agg, at(k), at(l))
        /\ \A k \in 1..Len(list) : \A j \in Rows(agg) \ named : QuantityBefore(agg, at(k), j)

\* C11: the operational-efficiency list that generate_recommendations emits
\* names the (up to) three periods of monthly_data with the highest total
\* quantity, in descending order of quantity, periods of equal quantity in
\* their order in monthly_data.
C11_PeakMonthsAreTopThreeByQuantity ==
    (HasRun("generate_recommendations") /\ "operational_efficiency" \in DOMAIN report)
    => IsTopThreeByQuantity(report["operational_efficiency"], monthly_data)

\* Four periods, the least quantity in the first of the aggregate and two
\* periods tied for the second place: the list leaves the first period out
\* and keeps the tied periods in the order of the aggregate.
C11_Witness ==
    /\ HasRun("generate_recommendations")
    /\ "operational_efficiency" \in DOMAIN report
    /\ Len(monthly_data.rows) = 4
    /\ monthly_data.rows[1]["QUANTITY"] = <<1>>
    /\ monthly_data.rows[2]["QUANTITY"] = <<2>>
    /\ monthly_data.rows[3]["QUANTITY"] = <<2>>
    /\ monthly_data.rows[4]["QUANTITY"] = <<2>>
    /\ report["operational_efficiency"] =
          <<monthly_data.rows[2]["Month-Year"][1], monthly_data.rows[3]["Month-Year"][1],
            monthly_data.rows[4]["Month-Year"][1]>>

----------------------------------------------------------------------------
(* C12 *)

\* stats_highlights holds the top category that sales_overview stores for
\* the table df.
HoldsTopCategoryOf(df) ==
    /\ "top_category" \in DOMAIN stats_highlights
    /\ stats_highlights["top_category"] =
          SalesHighlights(groupby_sum(df, "ANONYMIZED CATEGORY"))["top_category"]

----------------------------------------------------------------------------
(* C13 *)

\* df is an output of feature_engineering: it carries the period label.
IsFeatureOutput(df) == df # None /\ "Month-Year" \in df.columns

\* C13: feature_engineering called on a cleaned table that is its own output
\* leaves the number of rows of the table as it was.
C13_SecondRunKeepsRowCount ==
    [][ (last' = "feature_engineering" /\ IsFeatureOutput(cleaned_data))
        => /\ cleaned_data' # None
           /\ Len(cleaned_data'.rows) = Len(cleaned_data.rows) ]_vars

\* feature_engineering has run after trends_over_time aggregated an earlier
\* output of it, on a table of two rows from which a row had been dropped.
C13_Witness ==
    /\ HasRun("feature_engineering")
    /\ IsFeatureOutput(cleaned_data)
    /\ monthly_data # None
    /\ monthly_data = groupby_sum(cleaned_data, "Month-Year")
    /\ Len(cleaned_data.rows) = 2
    /\ Len(Cleaned(data).rows) = 3

----------------------------------------------------------------------------
(* C14 *)

Writers == {"sales_overview", "trends_over_time", "customer_segmentation"}

\* The stages that run_analysis calls after generate_recommendations.
AfterInsights == {"create_dashboard", "handle_bonus_questions"}

\* C14: stats_highlights is empty at construction; a call of
\* generate_recommendations leaves data, cleaned_data, monthly_data and
\* stats_highlights as they were; stats_highlights is written by
\* sales_overview, trends_over_time and customer_segmentation only, so not
\* by the stages that follow generate_recommendations.
C14_RecommendationsOnlyRead ==
    /\ stats_highlights = <<>>
    /\ [][ /\ last' = "generate_recommendations" => UNCHANGED obj
           /\ stats_highlights' # stats_highlights => last' \in Writers
           /\ last' \in AfterInsights => UNCHANGED obj ]_vars

\* generate_recommendations has emitted its whole report, from highlights
\* written by all three writers.
C14_Witness ==
    /\ HasRun("generate_recommendations")
    /\ "completion_status" \in DOMAIN report
    /\ {"top_category", "peak_month", "top_customer"} \subseteq DOMAIN stats_highlights
    /\ data # None /\ cleaned_data # None /\ monthly_data # None

----------------------------------------------------------------------------
(* C15 *)

\* A table is present only on top of the table it is made from.
PresentInOrder ==
    /\ cleaned_data # None => data # None
    /\ monthly_data # None => cleaned_data # None

\* cleaned_data is set by clean_data from a loaded table and afterwards
\* changed by feature_engineering only.
CleanedDataIsSetInOrder ==
    cleaned_data' # cleaned_data =>
        /\ data # None
        /\ raised' = "none"
        /\ \/ last' = "clean_data" /\ cleaned_data' = Cleaned(data)
           \/ last' = "feature_engineering" /\ cleaned_data # None

\* monthly_data is set by trends_over_time only, from a cleaned table that
\* feature_engineering has labelled, as the period aggregate of that table.
MonthlyDataIsSetInOrder ==
    monthly_data' # monthly_data =>
        /\ last' = "trends_over_time"
        /\ IsFeatureOutput(cleaned_data)
        /\ IsAggregateOf(monthly_data', cleaned_data, "Month-Year")

\* C15: over any sequence of stage calls on one object, cleaned_data is
\* present only if load_data and then clean_data succeeded earlier, and
\* monthly_data only if trends_over_time ran on a cleaned table on which
\* feature_engineering had completed: trends_over_time never sets
\* monthly_data from a table without the period label.
C15_StagesTakeEffectInOrder ==
    /\ []PresentInOrder
    /\ [][CleanedDataIsSetInOrder /\ MonthlyDataIsSetInOrder]_vars

\* trends_over_time has stored the aggregate of a labelled table with two
\* periods.
C15_Witness ==
    /\ HasRun("trends_over_time")
    /\ raised = "none"
    /\ IsFeatureOutput(cleaned_data)
    /\ monthly_data # None
    /\ Len(monthly_data.rows) = 2

=============================================================================
